---- MODULE Spec2Model ----
(***************************************************************************)
(* Version selection, formatting and validation of jhae-de/docker-images.  *)
(*                                                                         *)
(* Strings are modelled by what the code reads of them.  A version-like    *)
(* string is a record [form, major, minor, patch]:                         *)
(*   form "plain"   "18.17.1"                                              *)
(*   form "v"       "v18.17.1"  (the form of the Node.js dist index)       *)
(*   form "digits"  "18"        (major only; minor = patch = 0)            *)
(*   form "latest"  "latest"                                               *)
(*   form "invalid" any other text ("invalid", "twenty", "not-latest")     *)
(*   form "null"    the null that semver.clean returns                     *)
(* Numeric components carry no leading zeros.  A JavaScript value of the   *)
(* is-latest field is "true", "false" or "yes" (a truthy non-boolean).     *)
(***************************************************************************)
EXTENDS Integers, Sequences, FiniteSets, TLC

VARIABLES
    pc,                  \* position of the run: "ready" or "done"
    flavor,              \* validator in use: "node" or "jekyll"
    versions,            \* the array handed to validateVersions
    error,               \* what validateVersions threw (NoError if nothing)
    versionData,         \* NodeVersion[] of the Node.js dist index
    versionScheduleData, \* schedule.json: major -> schedule entry
    packageVersions,     \* GithubPackageVersion[] of the container registry
    now,                 \* new Date()
    activeLtsVersions,   \* what getActiveLtsVersions resolved to
    newerEolVersions,    \* what getNewerEolVersions resolved to
    eligibleVersions,    \* what getEligibleVersions resolved to
    result,              \* outcome of getVersions or getVersion
    failedSources,       \* the sources whose fetch fails conclusively
    cachedVersionData,   \* AbstractVersionFetcher.cachedVersionData
    versionScheduleDataCache, \* the static cache of VersionScheduleDataFetcher
    previousResult,      \* outcome of the call before the last one
    requestedVersion,    \* the argument of getVersion
    imageVersions,       \* outcome of NodeImageVersionFetcher.getVersions
    fetches,             \* the runs of fetchWithRetry started so far
    callers,             \* the calls in progress: position and promise of each
    retry                \* the locals of one run of fetchWithRetry

vars == <<pc, flavor, versions, error, versionData, versionScheduleData,
          packageVersions, now, activeLtsVersions, newerEolVersions,
          eligibleVersions, result, failedSources, cachedVersionData,
          versionScheduleDataCache, previousResult, requestedVersion,
          imageVersions, fetches, callers, retry>>

-----------------------------------------------------------------------------
(* Bounds *)

MaxLen == 3        \* longest array handed to validateVersions

-----------------------------------------------------------------------------
(* Strings *)

Str(form, major, minor, patch) ==
    [form |-> form, major |-> major, minor |-> minor, patch |-> patch]

Plain(major, minor, patch) == Str("plain", major, minor, patch)
VPrefixed(major, minor, patch) == Str("v", major, minor, patch)
Digits(n) == Str("digits", n, 0, 0)
LatestStr == Str("latest", 0, 0, 0)
InvalidStr == Str("invalid", 0, 0, 0)
Null == Str("null", 0, 0, 0)

\* String.prototype.toLowerCase on the codenames in use.
ToLowerCase(s) ==
    CASE s = "Hydrogen" -> "hydrogen"
      [] s = "Iron" -> "iron"
      [] s = "IRON" -> "iron"
      [] OTHER -> s

\* /^[A-Z][a-z]+$/ and /^[a-z]+$/ on the codenames in use ("" is undefined).
MatchesCapitalized(s) == s \in {"Hydrogen", "Iron"}
MatchesLowercase(s) == s \in {"hydrogen", "iron"}

-----------------------------------------------------------------------------
(* semver *)

\* semver.clean: trims, drops a leading "v" or "=", parses strictly.
Clean(s) ==
    IF s.form \in {"plain", "v"} THEN Plain(s.major, s.minor, s.patch) ELSE Null

\* semver.major of a parseable version.
Major(s) == s.major

\* semver.compare: -1, 0 or 1 by major, then minor, then patch.
Compare(a, b) ==
    IF a.major # b.major THEN (IF a.major < b.major THEN -1 ELSE 1)
    ELSE IF a.minor # b.minor THEN (IF a.minor < b.minor THEN -1 ELSE 1)
    ELSE IF a.patch # b.patch THEN (IF a.patch < b.patch THEN -1 ELSE 1)
    ELSE 0

SemverEq(a, b) == Compare(a, b) = 0
SemverLte(a, b) == Compare(a, b) <= 0

\* The key an array is sorted by: a version string itself, or the version
\* field of an object (semver.compare(a.version, b.version)).
VersionOf(x) == IF "form" \in DOMAIN x THEN x ELSE x.version

\* Array.prototype.sort with a semver.compare comparator: a stable
\* ascending sort, an element going after the elements it equals.
RECURSIVE InsertSorted(_, _)
InsertSorted(x, sorted) ==
    IF sorted = <<>> THEN <<x>>
    ELSE IF Compare(VersionOf(x), VersionOf(Head(sorted))) < 0 THEN <<x>> \o sorted
    ELSE <<Head(sorted)>> \o InsertSorted(x, Tail(sorted))

RECURSIVE SortByVersion(_)
SortByVersion(seq) ==
    IF seq = <<>> THEN <<>>
    ELSE InsertSorted(seq[Len(seq)], SortByVersion(SubSeq(seq, 1, Len(seq) - 1)))

\* semver.sort(list): ascending by version.
SemverSort(list) == SortByVersion(list)

\* Array.prototype.at(-1), for a non-empty array
Last(seq) == seq[Len(seq)]

-----------------------------------------------------------------------------
(* WorkflowContextVersion *)

\* The image-name string: "Node <version> LTS (<codename>)" is form "node",
\* "Jekyll <version>" is form "jekyll", anything else is form "other".
ImageName(form, version, codename) ==
    [form |-> form, major |-> version.major, minor |-> version.minor,
     patch |-> version.patch, codename |-> codename]

Entry(version, imageVersion, imageName, imageCodeName, isLatest) ==
    [version |-> version, imageVersion |-> imageVersion, imageName |-> imageName,
     imageCodeName |-> imageCodeName, isLatest |-> isLatest]

\* addLatestVersionObject: const latestVersion
LatestVersionObject ==
    Entry(LatestStr, LatestStr, ImageName("other", Null, ""), "", "true")

NoEntry == Entry(Null, Null, ImageName("other", Null, ""), "", "false")

Truthy(value) == value \in {"true", "yes"}
IsBoolean(value) == value \in {"true", "false"}

-----------------------------------------------------------------------------
(* NodeVersionValidator, JekyllVersionValidator *)

\* /^\d+\.\d+\.\d+$/
MatchesVersionRegex(s) == s.form = "plain"

\* /^\d+$/
MatchesImageVersionRegex(s) == s.form = "digits"

\* NodeVersionValidator.isValidRegularVersion
NodeIsValidRegularVersion(version) ==
    LET \* image-name.match(/\(([^)]+)\)$/): the text in the trailing brackets
        codeNameMatches == IF version.imageName.form = "node"
                           THEN version.imageName.codename ELSE ""
        isValidCodeName == /\ codeNameMatches # ""
                           /\ version.imageCodeName = ToLowerCase(codeNameMatches)
    IN  /\ MatchesVersionRegex(version.version)
        /\ MatchesImageVersionRegex(version.imageVersion)
        /\ version.imageName.form = "node"
        /\ MatchesCapitalized(version.imageName.codename)
        /\ MatchesLowercase(version.imageCodeName)
        /\ IsBoolean(version.isLatest)
        /\ isValidCodeName

\* JekyllVersionValidator.isValidRegularVersion
JekyllIsValidRegularVersion(version) ==
    /\ MatchesVersionRegex(version.version)
    /\ MatchesVersionRegex(version.imageVersion)
    /\ version.imageName.form = "jekyll"
    /\ IsBoolean(version.isLatest)

\* this.isValidRegularVersion, dispatched on the concrete validator
IsValidRegularVersion(validator, version) ==
    IF validator = "node" THEN NodeIsValidRegularVersion(version)
    ELSE JekyllIsValidRegularVersion(version)

-----------------------------------------------------------------------------
(* AbstractVersionValidator.validateVersions *)

IsLatestEntry(version) == version.version = LatestStr
IsRegularEntry(version) == version.version # LatestStr

\* const regularVersions
RegularVersions(list) == SelectSeq(list, IsRegularEntry)

\* Mutant of LatestVersions: only a trailing latest entry is counted.
LatestVersionsAtEnd(list) ==
    IF list # <<>> /\ IsLatestEntry(Last(list)) THEN <<Last(list)>> ELSE <<>>

\* const latestVersions
LatestVersions(list) == SelectSeq(list, IsLatestEntry)

\* The error messages, and the record of a throw.
TooShort == "Versions array must contain at least two elements."
InvalidRegular == "Invalid regular version object: "
MissingLatest == "Missing latest version object."
MultipleLatest == "Versions array must contain only one latest version object."
InvalidLatest == "Invalid latest version object: "
NotSorted == "Regular versions are not sorted ascending by version number."
LastRegularNotLatest == "The last regular version must have is-latest: true."
LatestNotLast == "Latest version object must be last in the array."

Throw(message, object) == [message |-> message, object |-> object]
NoError == Throw("", NoEntry)

\* What functions that may throw hand back: the thrown error or the value.
Ok(value) == [error |-> NoError, value |-> value]
Fail(thrown) == [error |-> thrown, value |-> <<>>]

\* Mutant of FirstInvalidRegular: reports the last failing entry.
FirstInvalidRegularFromEnd(validator, regularVersions) ==
    LET bad == {i \in 1..Len(regularVersions) :
                    ~IsValidRegularVersion(validator, regularVersions[i])}
    IN  IF bad = {} THEN 0 ELSE CHOOSE i \in bad : \A j \in bad : i >= j

\* regularVersions.forEach(...): the first regular entry that fails
\* isValidRegularVersion, as an index into regularVersions (0 if none).
FirstInvalidRegular(validator, regularVersions) ==
    LET bad == {i \in 1..Len(regularVersions) :
                    ~IsValidRegularVersion(validator, regularVersions[i])}
    IN  IF bad = {} THEN 0 ELSE CHOOSE i \in bad : \A j \in bad : i <= j

\* latestVersion['image-version'] !== 'latest' || !latestVersion['is-latest']
IsInvalidLatestVersion(latestVersion) ==
    latestVersion.imageVersion # LatestStr \/ ~Truthy(latestVersion.isLatest)

\* JSON.stringify(regularVersionNumbers) !== JSON.stringify(semver.sort([...]))
IsNotSorted(regularVersionNumbers) ==
    regularVersionNumbers # SemverSort(regularVersionNumbers)

\* Mutant of LastRegularIsNotLatest: reads the first regular entry.
FirstRegularIsNotLatest(regularVersions) ==
    regularVersions = <<>> \/ ~Truthy(Head(regularVersions).isLatest)

\* !regularVersions.at(-1)?.['is-latest']
LastRegularIsNotLatest(regularVersions) ==
    regularVersions = <<>> \/ ~Truthy(Last(regularVersions).isLatest)

\* Mutant of LatestIsLast: the position of the latest entry is not checked.
LatestIsAnywhere(list) == TRUE

\* versions.at(-1)?.version === 'latest'
LatestIsLast(list) == list # <<>> /\ Last(list).version = LatestStr

EntryVersion(version) == version.version

\* Mutant of ValidateVersions: the order check runs before the latest count.
ValidateVersionsSortFirst(validator, list) ==
    LET regularVersions == RegularVersions(list)
        invalid == FirstInvalidRegular(validator, regularVersions)
        latestVersions == LatestVersions(list)
        regularVersionNumbers ==
            [i \in 1..Len(regularVersions) |-> EntryVersion(regularVersions[i])]
    IN  IF Len(list) < 2 THEN Throw(TooShort, NoEntry)
        ELSE IF invalid # 0 THEN Throw(InvalidRegular, regularVersions[invalid])
        ELSE IF IsNotSorted(regularVersionNumbers) THEN Throw(NotSorted, NoEntry)
        ELSE IF Len(latestVersions) = 0 THEN Throw(MissingLatest, NoEntry)
        ELSE IF Len(latestVersions) > 1 THEN Throw(MultipleLatest, NoEntry)
        ELSE IF IsInvalidLatestVersion(latestVersions[1])
             THEN Throw(InvalidLatest, latestVersions[1])
        ELSE IF LastRegularIsNotLatest(regularVersions)
             THEN Throw(LastRegularNotLatest, NoEntry)
        ELSE IF LatestIsLast(list) THEN NoError
        ELSE Throw(LatestNotLast, NoEntry)

\* The seven checks in the order of the source; the first that fails throws.
ValidateVersions(validator, list) ==
    LET regularVersions == RegularVersions(list)
        invalid == FirstInvalidRegular(validator, regularVersions)
        latestVersions == LatestVersions(list)
        regularVersionNumbers ==
            [i \in 1..Len(regularVersions) |-> EntryVersion(regularVersions[i])]
    IN  IF Len(list) < 2 THEN Throw(TooShort, NoEntry)
        ELSE IF invalid # 0 THEN Throw(InvalidRegular, regularVersions[invalid])
        ELSE IF Len(latestVersions) = 0 THEN Throw(MissingLatest, NoEntry)
        ELSE IF Len(latestVersions) > 1 THEN Throw(MultipleLatest, NoEntry)
        ELSE IF IsInvalidLatestVersion(latestVersions[1])
             THEN Throw(InvalidLatest, latestVersions[1])
        ELSE IF IsNotSorted(regularVersionNumbers) THEN Throw(NotSorted, NoEntry)
        ELSE IF LastRegularIsNotLatest(regularVersions)
             THEN Throw(LastRegularNotLatest, NoEntry)
        ELSE IF LatestIsLast(list) THEN NoError
        ELSE Throw(LatestNotLast, NoEntry)

-----------------------------------------------------------------------------
(* Arrays handed to validateVersions *)

\* getValidRegularVersion of node-version-validator.class.test.ts
NodeRegularVersion(version, codeName, isLatest) ==
    Entry(version, Digits(version.major), ImageName("node", version, codeName),
          ToLowerCase(codeName), isLatest)

\* getValidRegularVersion of jekyll-version-validator.class.test.ts
JekyllRegularVersion(version, isLatest) ==
    Entry(version, version, ImageName("jekyll", version, ""), "", isLatest)

\* Regular entries offered to the Node validator: the valid ones of the
\* tests with either flag, and entries spoiled in one field each.
NodeEntries ==
    LET hydrogen == NodeRegularVersion(Plain(18, 17, 1), "Hydrogen", "false")
    IN  { NodeRegularVersion(v[1], v[2], isLatest) :
            v \in {<<Plain(18, 17, 1), "Hydrogen">>, <<Plain(20, 10, 0), "Iron">>},
            isLatest \in {"true", "false"} }
        \cup { [hydrogen EXCEPT !.version = InvalidStr],
               [hydrogen EXCEPT !.imageVersion = InvalidStr],
               [hydrogen EXCEPT !.isLatest = "yes"] }

\* Regular entries offered to the Jekyll validator.
JekyllEntries ==
    LET jekyll == JekyllRegularVersion(Plain(4, 0, 0), "false")
    IN  { JekyllRegularVersion(v, isLatest) :
            v \in {Plain(4, 0, 0), Plain(4, 1, 0)}, isLatest \in {"true", "false"} }
        \cup { [jekyll EXCEPT !.version = InvalidStr],
               [jekyll EXCEPT !.imageName = ImageName("other", Plain(4, 0, 0), "")] }

\* Entries whose version is "latest": the sentinel, the invalid one of the
\* tests, and one whose is-latest is truthy without being true.
LatestEntries ==
    { LatestVersionObject,
      [LatestVersionObject EXCEPT !.imageVersion = InvalidStr, !.isLatest = "false"],
      [LatestVersionObject EXCEPT !.isLatest = "yes"] }

EntriesOf(validator) ==
    (IF validator = "node" THEN NodeEntries ELSE JekyllEntries) \cup LatestEntries

SeqsUpTo(S, n) == UNION { [1..k -> S] : k \in 0..n }

-----------------------------------------------------------------------------
(* Validator run: one call of validateVersions on an arbitrary array *)

NoCalls ==
    /\ fetches = <<>>
    /\ callers = <<>>
    /\ retry = <<>>

NoSelection ==
    /\ imageVersions = Ok(<<>>)
    /\ versionData = <<>>
    /\ versionScheduleData = <<>>
    /\ packageVersions = <<>>
    /\ now = 0
    /\ activeLtsVersions = <<>>
    /\ newerEolVersions = <<>>
    /\ eligibleVersions = <<>>
    /\ result = Ok(<<>>)
    /\ failedSources = {}
    /\ previousResult = Ok(<<>>)
    /\ requestedVersion = Null

NoFetch ==
    /\ NoSelection
    /\ NoCalls
    /\ cachedVersionData = <<>>
    /\ versionScheduleDataCache = <<>>

InitValidator ==
    /\ pc = "ready"
    /\ flavor \in {"node", "jekyll"}
    /\ versions \in SeqsUpTo(EntriesOf(flavor), MaxLen)
    /\ error = NoError
    /\ NoFetch

\* validator.validateVersions(versions)
CallValidateVersions ==
    /\ pc = "ready"
    /\ error' = ValidateVersions(flavor, versions)
    /\ pc' = "done"
    /\ UNCHANGED <<flavor, versions, versionData, versionScheduleData,
                   packageVersions, now, activeLtsVersions, newerEolVersions,
                   eligibleVersions, result, failedSources, cachedVersionData,
                   versionScheduleDataCache, previousResult, requestedVersion,
                   imageVersions, fetches, callers, retry>>

NextValidator == CallValidateVersions

SpecValidator == InitValidator /\ [][NextValidator]_vars

-----------------------------------------------------------------------------
(* Properties of validateVersions *)

\* validateVersions returned without throwing.
Accepted == pc = "done" /\ error = NoError

\* Positions of the entries whose version is "latest", and of the others.
LatestAt == {i \in 1..Len(versions) : versions[i].version = LatestStr}
RegularAt == {i \in 1..Len(versions) : versions[i].version # LatestStr}

\* C1: every accepted array holds exactly one entry whose version is
\* "latest", and that entry is the last element.
C1_SingleLatestIsLast ==
    Accepted => /\ Cardinality(LatestAt) = 1
                /\ LatestAt = {Len(versions)}

\* C1 witness: an accepted array of two regular entries and the sentinel.
C1_Witness ==
    Accepted /\ Len(versions) = 3 /\ Cardinality(RegularAt) = 2

\* C2: in every accepted array the regular entries are in strictly ascending
\* version order, so no two regular entries carry an equal version.
C2_StrictlyAscending ==
    Accepted =>
        \A i, j \in RegularAt :
            i < j => Compare(versions[i].version, versions[j].version) < 0

\* C3: in every accepted array the last regular entry has is-latest true and
\* no other regular entry has.
C3_OnlyLastRegularIsLatest ==
    Accepted =>
        \A i \in RegularAt :
            (versions[i].isLatest = "true") <=> (\A j \in RegularAt : j <= i)

\* What the array violates, stated on the array itself.
Violates1 == Len(versions) < 2
Violates2 == \E i \in RegularAt : ~IsValidRegularVersion(flavor, versions[i])
Violates3 == Cardinality(LatestAt) # 1
Violates4 ==
    \E i \in LatestAt :
        ~(versions[i].imageVersion = LatestStr /\ Truthy(versions[i].isLatest))
Violates5 ==
    \E i, j \in RegularAt :
        i < j /\ Compare(versions[i].version, versions[j].version) > 0
Violates6 ==
    \A i \in RegularAt :
        (\A j \in RegularAt : j <= i) => ~Truthy(versions[i].isLatest)
Violates7 == versions = <<>> \/ Len(versions) \notin LatestAt

\* The message of the first check, in the order 1..7, that the array violates.
ExpectedMessage ==
    CASE Violates1 -> TooShort
      [] ~Violates1 /\ Violates2 -> InvalidRegular
      [] ~Violates1 /\ ~Violates2 /\ Violates3 ->
            IF LatestAt = {} THEN MissingLatest ELSE MultipleLatest
      [] ~Violates1 /\ ~Violates2 /\ ~Violates3 /\ Violates4 -> InvalidLatest
      [] ~Violates1 /\ ~Violates2 /\ ~Violates3 /\ ~Violates4 /\ Violates5 -> NotSorted
      [] ~Violates1 /\ ~Violates2 /\ ~Violates3 /\ ~Violates4 /\ ~Violates5
            /\ Violates6 -> LastRegularNotLatest
      [] ~Violates1 /\ ~Violates2 /\ ~Violates3 /\ ~Violates4 /\ ~Violates5
            /\ ~Violates6 /\ Violates7 -> LatestNotLast
      [] OTHER -> ""

WellFormed ==
    /\ Len(versions) >= 2
    /\ RegularAt = 1..(Len(versions) - 1)
    /\ Last(versions) = LatestVersionObject
    /\ \A i \in RegularAt : IsValidRegularVersion(flavor, versions[i])
    /\ \A i, j \in RegularAt :
            i < j => Compare(versions[i].version, versions[j].version) <= 0
    /\ versions[Len(versions) - 1].isLatest = "true"

InvalidAt == {i \in RegularAt : ~IsValidRegularVersion(flavor, versions[i])}

\* C10: for an array of at least two entries with a failing regular entry,
\* the error is "Invalid regular version object: " with the first failing
\* regular entry in list order, whatever the sentinels and the order are.
C10_FirstInvalidRegularRaised ==
    (pc = "done" /\ Len(versions) >= 2 /\ InvalidAt # {}) =>
        \E i \in InvalidAt :
            /\ \A j \in InvalidAt : i <= j
            /\ error = Throw(InvalidRegular, versions[i])

\* C10 witness: two different failing regular entries in an array without
\* any sentinel; the first one is reported.
C10_Witness ==
    /\ pc = "done" /\ Cardinality(InvalidAt) >= 2 /\ LatestAt = {}
    /\ \E i, j \in InvalidAt : i < j /\ versions[i] # versions[j]
    /\ error.message = InvalidRegular

\* C11: for an array of at least two entries whose regular entries are all
\* shape-valid, the error is "Missing latest version object." when no entry
\* has version "latest" and "Versions array must contain only one latest
\* version object." when more than one has, wherever those entries sit.
C11_LatestCountErrors ==
    (pc = "done" /\ Len(versions) >= 2 /\ InvalidAt = {}) =>
        /\ LatestAt = {} => error = Throw(MissingLatest, NoEntry)
        /\ Cardinality(LatestAt) > 1 => error = Throw(MultipleLatest, NoEntry)

\* C11 witness: two latest entries ahead of a valid regular entry, none of
\* them at the end of the array, rejected for their number.
C11_Witness ==
    /\ pc = "done" /\ Len(versions) = 3 /\ InvalidAt = {}
    /\ LatestAt = {1, 2}
    /\ error = Throw(MultipleLatest, NoEntry)

\* C12: the latest entry of every accepted array has image-version "latest"
\* and is-latest true; an array that passes the earlier checks and whose one
\* latest entry has another image-version, or an is-latest that is not true,
\* is rejected with "Invalid latest version object: " and that entry.
C12_SentinelIsLatestTrue ==
    /\ Accepted =>
          \A i \in LatestAt :
              versions[i].imageVersion = LatestStr /\ versions[i].isLatest = "true"
    /\ (pc = "done" /\ Len(versions) >= 2 /\ InvalidAt = {}
            /\ Cardinality(LatestAt) = 1) =>
          \A i \in LatestAt :
              ~(versions[i].imageVersion = LatestStr /\ versions[i].isLatest = "true")
                  => error = Throw(InvalidLatest, versions[i])

-----------------------------------------------------------------------------
(* Inputs of the fetchers *)

\* NodeVersion: the fields the code reads.  lts is a codename, or LtsFalse
\* for the boolean false of a release that is not LTS.
LtsFalse == "false"
NodeVersion(version, lts) == [version |-> version, lts |-> lts]

\* NodeVersionSchedule: lts and end are <<>> when undefined, else <<date>>.
NodeVersionSchedule(lts, end) == [lts |-> lts, end |-> end]
IsDefined(field) == field # <<>>
Date(field) == field[1]

\* versionScheduleData[`v${major}`]; a missing key reads as undefined, and
\* ?. on undefined gives undefined for both fields.
ScheduleOf(scheduleData, major) ==
    IF major \in DOMAIN scheduleData THEN scheduleData[major]
    ELSE NodeVersionSchedule(<<>>, <<>>)

\* A JavaScript Map keyed by major version: pairs in insertion order.
MapHas(map, key) == \E i \in 1..Len(map) : map[i].key = key
MapGet(map, key) == map[CHOOSE i \in 1..Len(map) : map[i].key = key].value
\* Mutant of MapSet: an array push in place of Map.prototype.set.
MapPush(map, key, value) == Append(map, [key |-> key, value |-> value])

\* Map.prototype.set: a present key keeps its place and takes the new value.
MapSet(map, key, value) ==
    IF MapHas(map, key)
    THEN [i \in 1..Len(map) |->
            IF map[i].key = key THEN [key |-> key, value |-> value] ELSE map[i]]
    ELSE Append(map, [key |-> key, value |-> value])

\* Array.from(map.values())
MapValues(map) == [i \in 1..Len(map) |-> map[i].value]

-----------------------------------------------------------------------------
(* The three sources, their fetches and their caches *)

Sources == {"versionData", "versionScheduleData", "packageVersions"}

\* The errors of the fetches; the status text of the response is left out.
\* The dist index and the registry fail with the same message.
FailedVersionData == "Failed to fetch version data: "
FailedVersionScheduleData == "Failed to fetch version schedule data: "

\* fetchVersionData / fetchVersionScheduleData: the response is not ok, or
\* its body is the data.
FetchData(failed, message, data) ==
    IF failed THEN Fail(Throw(message, NoEntry)) ELSE Ok(data)

\* fetchWithRetry on a source that fails at every attempt or at none: the
\* last error is thrown, or the value of the first attempt is returned.
FetchWithRetry(fetched) == fetched

\* Mutant of GetVersionData: a call served from the cache resolves to an
\* empty array.
GetVersionDataServedEmpty(cache, failed, data) ==
    LET fetched == FetchWithRetry(FetchData("versionData" \in failed,
                                            FailedVersionData, data))
    IN  IF cache # <<>> THEN [promise |-> Ok(<<>>), cache |-> cache]
        ELSE IF fetched.error # NoError THEN [promise |-> fetched, cache |-> cache]
        ELSE [promise |-> fetched, cache |-> <<fetched.value>>]

\* AbstractVersionFetcher.getVersionData: the cache is <<>> for null and
\* <<data>> once a fetch has succeeded; a failed fetch leaves it null.
GetVersionData(cache, failed, data) ==
    LET fetched == FetchWithRetry(FetchData("versionData" \in failed,
                                            FailedVersionData, data))
    IN  IF cache # <<>> THEN [promise |-> Ok(cache[1]), cache |-> cache]
        ELSE IF fetched.error # NoError THEN [promise |-> fetched, cache |-> cache]
        ELSE [promise |-> fetched, cache |-> <<fetched.value>>]

\* VersionScheduleDataFetcher.getVersionScheduleData: the cache keeps the
\* promise of the first call for the URL, fulfilled or rejected.
GetVersionScheduleData(cache, failed, data) ==
    LET promise == FetchWithRetry(FetchData("versionScheduleData" \in failed,
                                            FailedVersionScheduleData, data))
    IN  IF cache = <<>> THEN [promise |-> promise, cache |-> <<promise>>]
        ELSE [promise |-> cache[1], cache |-> cache]

-----------------------------------------------------------------------------
(* NodeImageVersionFetcher, AbstractImageVersionFetcher *)

\* One iteration of the forEach of processPackageVersions.  A description
\* reads "Node <version> LTS (<codename>)" (form "node", matched without
\* regard to case) or something else (form "other").
ProcessPackageVersion(processedVersions, packageVersion) ==
    LET description == packageVersion.description
        nodeVersion == Plain(description.major, description.minor, description.patch)
        nodeLts == description.codename
        majorVersion == Major(nodeVersion)
    IN  IF description.form # "node" THEN processedVersions
        ELSE IF /\ MapHas(processedVersions, majorVersion)
                /\ SemverLte(nodeVersion, MapGet(processedVersions, majorVersion).version)
             THEN processedVersions
        ELSE MapSet(processedVersions, majorVersion,
                    Entry(nodeVersion, Digits(majorVersion),
                          ImageName("node", nodeVersion, nodeLts),
                          ToLowerCase(nodeLts), "false"))

\* NodeImageVersionFetcher.processPackageVersions
ProcessPackageVersions(packages) ==
    LET processedVersions[i \in 0..Len(packages)] ==
            IF i = 0 THEN <<>>
            ELSE ProcessPackageVersion(processedVersions[i - 1], packages[i])
    IN  MapValues(processedVersions[Len(packages)])

\* Mutant of AddLatestVersionObject: nothing is appended to an empty array.
AddLatestVersionObjectIfAny(regularVersions) ==
    IF regularVersions = <<>> THEN <<>>
    ELSE Append(regularVersions, LatestVersionObject)

\* AbstractVersionFetcher.addLatestVersionObject
AddLatestVersionObject(regularVersions) == Append(regularVersions, LatestVersionObject)

\* AbstractImageVersionFetcher.getAllVersions, with the Node validator
GetAllVersions(packages) ==
    LET sorted == SortByVersion(ProcessPackageVersions(packages))
        regularVersions ==
            [i \in 1..Len(sorted) |->
                IF i = Len(sorted) THEN [sorted[i] EXCEPT !.isLatest = "true"]
                ELSE sorted[i]]
        all == AddLatestVersionObject(regularVersions)
        thrown == ValidateVersions("node", all)
    IN  IF thrown = NoError THEN Ok(all) ELSE Fail(thrown)

\* The filter predicate of NodeImageVersionFetcher.getVersions
ImageIsActiveLts(scheduleData, major, time) ==
    LET versionSchedule == ScheduleOf(scheduleData, major)
    IN  IF IsDefined(versionSchedule.lts) /\ IsDefined(versionSchedule.end)
        THEN time >= Date(versionSchedule.lts) /\ time < Date(versionSchedule.end)
        ELSE FALSE

\* NodeImageVersionFetcher.getVersions
NodeImageGetVersions(packages, scheduleData, time) ==
    LET all == GetAllVersions(packages)
        Keep(version) ==
            \/ version.version = LatestStr
            \/ ImageIsActiveLts(scheduleData, Major(version.version), time)
    IN  IF all.error # NoError THEN all ELSE Ok(SelectSeq(all.value, Keep))

\* Mutant of AwaitNodeImageVersions: a failed registry fetch counts as a
\* registry without images.
AwaitNodeImageVersionsOrNone(fetched, scheduleData, time) ==
    IF fetched.error # NoError THEN Ok(<<LatestVersionObject>>)
    ELSE NodeImageGetVersions(fetched.value, scheduleData, time)

\* await container.resolve(NodeImageVersionFetcher).getVersions(), with the
\* await of fetchVersionData inside getAllVersions: a rejection propagates.
AwaitNodeImageVersions(fetched, scheduleData, time) ==
    IF fetched.error # NoError THEN Fail(fetched.error)
    ELSE NodeImageGetVersions(fetched.value, scheduleData, time)

-----------------------------------------------------------------------------
(* NodeVersionFetcher: selection *)

\* NodeVersionFetcher.getLtsVersions
GetLtsVersions(allVersions) ==
    LET IsLts(version) == version.lts # LtsFalse
    IN  SelectSeq(allVersions, IsLts)

\* Mutant of IsActiveLts: a line is not yet active on its LTS start date.
IsActiveLtsAfterStart(scheduleData, major, time) ==
    LET versionSchedule == ScheduleOf(scheduleData, major)
    IN  IF IsDefined(versionSchedule.lts) /\ IsDefined(versionSchedule.end)
        THEN time > Date(versionSchedule.lts) /\ time < Date(versionSchedule.end)
        ELSE FALSE

\* The schedule test of getActiveLtsVersions
IsActiveLts(scheduleData, major, time) ==
    LET versionSchedule == ScheduleOf(scheduleData, major)
    IN  IF IsDefined(versionSchedule.lts) /\ IsDefined(versionSchedule.end)
        THEN time >= Date(versionSchedule.lts) /\ time < Date(versionSchedule.end)
        ELSE FALSE

\* NodeVersionFetcher.getActiveLtsVersions
\* Mutant of GetActiveLtsVersions: a record whose version does not clean
\* passes the filter.
GetActiveLtsVersionsKeepingUnparsed(allVersions, scheduleData, time) ==
    LET Keep(ltsVersion) ==
            LET cleanLtsVersion == Clean(ltsVersion.version)
            IN  IF cleanLtsVersion = Null THEN TRUE
                ELSE IsActiveLts(scheduleData, Major(cleanLtsVersion), time)
    IN  SelectSeq(GetLtsVersions(allVersions), Keep)

\* NodeVersionFetcher.getActiveLtsVersions, given what its awaits resolved to
GetActiveLtsVersions(allVersions, scheduleData, time) ==
    LET Keep(ltsVersion) ==
            LET cleanLtsVersion == Clean(ltsVersion.version)
            IN  IF cleanLtsVersion = Null THEN FALSE
                ELSE IsActiveLts(scheduleData, Major(cleanLtsVersion), time)
    IN  SelectSeq(GetLtsVersions(allVersions), Keep)

\* Mutant of KeepLatestOfMajor: the first record of a major is kept.
KeepFirstOfMajor(latestVersions, version) ==
    LET cleanVersion == Clean(version.version)
        majorVersion == Major(cleanVersion)
    IN  IF cleanVersion = Null THEN latestVersions
        ELSE IF MapHas(latestVersions, majorVersion) THEN latestVersions
        ELSE MapSet(latestVersions, majorVersion, version)

\* One iteration of the forEach of getLatestVersionsByMajor
KeepLatestOfMajor(latestVersions, version) ==
    LET cleanVersion == Clean(version.version)
        majorVersion == Major(cleanVersion)
    IN  IF cleanVersion = Null THEN latestVersions
        ELSE IF /\ MapHas(latestVersions, majorVersion)
                /\ SemverLte(cleanVersion,
                             Clean(MapGet(latestVersions, majorVersion).version))
             THEN latestVersions
        ELSE MapSet(latestVersions, majorVersion, version)

\* NodeVersionFetcher.getLatestVersionsByMajor
GetLatestVersionsByMajor(list) ==
    LET latestVersions[i \in 0..Len(list)] ==
            IF i = 0 THEN <<>>
            ELSE KeepLatestOfMajor(latestVersions[i - 1], list[i])
    IN  MapValues(latestVersions[Len(list)])

\* NodeVersionFetcher.getMajorVersions
GetMajorVersions(list) ==
    {Major(Clean(list[i].version)) :
        i \in {j \in 1..Len(list) : Clean(list[j].version) # Null}}

\* NodeVersionFetcher.getVersionsByMajorVersion
GetVersionsByMajorVersion(list, majorVersion) ==
    LET Keep(version) ==
            LET cleanVersion == Clean(version.version)
            IN  cleanVersion # Null /\ Major(cleanVersion) = majorVersion
    IN  SelectSeq(list, Keep)

\* NodeVersionFetcher.getNewerEolVersions, given what the three awaits
\* resolved to: the version data, the active LTS versions and the list of
\* NodeImageVersionFetcher.getVersions.
GetNewerEolVersions(allVersions, activeLts, nodeImageVersions) ==
    LET activeLtsMajorVersions == GetMajorVersions(activeLts)
        Step(newer, nodeImageVersion) ==
            LET majorVersion == Major(nodeImageVersion.version)
                versionsWithSameMajor ==
                    GetVersionsByMajorVersion(allVersions, majorVersion)
                latest == GetLatestVersionsByMajor(versionsWithSameMajor)
                newerEolVersion == latest[1]
                cleanEolVersion == Clean(newerEolVersion.version)
            IN  IF majorVersion \in activeLtsMajorVersions THEN newer
                ELSE IF latest = <<>> THEN newer
                ELSE IF \/ cleanEolVersion = Null
                        \/ SemverLte(cleanEolVersion, nodeImageVersion.version)
                     THEN newer
                ELSE Append(newer, newerEolVersion)
        regular == SelectSeq(nodeImageVersions, IsRegularEntry)
        newerEol[i \in 0..Len(regular)] ==
            IF i = 0 THEN <<>> ELSE Step(newerEol[i - 1], regular[i])
    IN  newerEol[Len(regular)]

\* One iteration of the forEach of getEligibleVersions
KeepEligibleOfMajor(eligible, eligibleVersion) ==
    LET cleanVersion == Clean(eligibleVersion.version)
        majorVersion == Major(cleanVersion)
    IN  IF cleanVersion = Null THEN eligible
        ELSE IF /\ MapHas(eligible, majorVersion)
                /\ SemverLte(cleanVersion,
                             Clean(MapGet(eligible, majorVersion).version))
             THEN eligible
        ELSE MapSet(eligible, majorVersion, eligibleVersion)

\* Mutant of MergeEligibleVersions: the values of the map are not sorted.
MergeEligibleVersionsUnsorted(activeLts, newerEol) ==
    LET merged == activeLts \o newerEol
        eligible[i \in 0..Len(merged)] ==
            IF i = 0 THEN <<>> ELSE KeepEligibleOfMajor(eligible[i - 1], merged[i])
    IN  MapValues(eligible[Len(merged)])

\* The merge and sort of getEligibleVersions, lines 151-172
MergeEligibleVersions(activeLts, newerEol) ==
    LET merged == activeLts \o newerEol
        eligible[i \in 0..Len(merged)] ==
            IF i = 0 THEN <<>> ELSE KeepEligibleOfMajor(eligible[i - 1], merged[i])
    IN  SortByVersion(MapValues(eligible[Len(merged)]))

-----------------------------------------------------------------------------
(* NodeVersionFetcher: formatting *)

\* What (version.lts as string).toLowerCase() throws when lts is false.
NotAFunction == "TypeError: version.lts.toLowerCase is not a function"

Boolean(b) == IF b THEN "true" ELSE "false"

\* Mutant of FormatRegularVersion: the codename is not lower-cased.
FormatRegularVersionVerbatim(version, latestVersion) ==
    LET cleanVersion == Clean(version.version)
    IN  Entry(cleanVersion, Digits(Major(cleanVersion)),
              ImageName("node", cleanVersion, version.lts),
              version.lts,
              Boolean(SemverEq(cleanVersion, latestVersion)))

\* The callback of eligibleVersions.map in getVersions, for a record whose
\* lts is a string.
FormatRegularVersion(version, latestVersion) ==
    LET cleanVersion == Clean(version.version)
    IN  Entry(cleanVersion, Digits(Major(cleanVersion)),
              ImageName("node", cleanVersion, version.lts),
              ToLowerCase(version.lts),
              Boolean(SemverEq(cleanVersion, latestVersion)))

NodeVersionString(version) == version.version

\* The map callback throws: the lts of a record is false, not a string.
FormatThrows(eligible) == \E i \in 1..Len(eligible) : eligible[i].lts = LtsFalse

\* Mutant of FormatVersions: every entry is compared with the first version
\* of the sorted array, not the last.
FormatVersionsAgainstFirst(eligible) ==
    LET sorted == SemverSort([i \in 1..Len(eligible) |-> NodeVersionString(eligible[i])])
        latestVersion == IF sorted = <<>> THEN Null ELSE Head(sorted)
        regularVersions ==
            [i \in 1..Len(eligible) |-> FormatRegularVersion(eligible[i], latestVersion)]
    IN  AddLatestVersionObject(regularVersions)

\* const versions of getVersions, lines 115-133: the formatted entries and
\* the latest version object, for records whose lts is a string.
FormatVersions(eligible) ==
    LET sorted == SemverSort([i \in 1..Len(eligible) |-> NodeVersionString(eligible[i])])
        latestVersion == IF sorted = <<>> THEN Null ELSE Last(sorted)
        regularVersions ==
            [i \in 1..Len(eligible) |-> FormatRegularVersion(eligible[i], latestVersion)]
    IN  AddLatestVersionObject(regularVersions)

\* NodeVersionFetcher.getVersions after the await, lines 115-137
FormatAndValidate(eligible) ==
    LET all == FormatVersions(eligible)
        thrown == ValidateVersions("node", all)
    IN  IF FormatThrows(eligible) THEN Fail(Throw(NotAFunction, NoEntry))
        ELSE IF thrown = NoError THEN Ok(all) ELSE Fail(thrown)

-----------------------------------------------------------------------------
(* Fetcher run: one call of NodeVersionFetcher.getVersions *)

MaxRecords == 2    \* most records in the version data
MaxPackages == 2   \* most package versions in the registry

Majors == {18, 20}

\* Records of the Node.js dist index: LTS releases of two lines, a release
\* that is not LTS, and a record whose version does not parse.
NodeVersions ==
    { NodeVersion(VPrefixed(18, 17, 0), "Hydrogen"),
      NodeVersion(VPrefixed(18, 17, 1), "Hydrogen"),
      NodeVersion(VPrefixed(18, 17, 3), "Hydrogen"),
      NodeVersion(VPrefixed(20, 11, 0), LtsFalse),
      NodeVersion(VPrefixed(20, 10, 0), "Iron"),
      NodeVersion(InvalidStr, "Hydrogen") }

\* Schedule entries around the current time: a field missing, the LTS
\* window opening now, the window closing now, the window not yet open.
CurrentTimes == {1}
NodeVersionSchedules ==
    { NodeVersionSchedule(<<>>, <<2>>),
      NodeVersionSchedule(<<0>>, <<>>),
      NodeVersionSchedule(<<1>>, <<2>>),
      NodeVersionSchedule(<<0>>, <<1>>),
      NodeVersionSchedule(<<2>>, <<3>>) }

\* Package versions of the registry, by their description.
GithubPackageVersion(description) == [description |-> description]
GithubPackageVersions ==
    { GithubPackageVersion(ImageName("node", Plain(18, 17, 1), "Hydrogen")),
      GithubPackageVersion(ImageName("node", Plain(20, 10, 0), "Iron")) }

\* A source whose fetch fails delivers no data.
InitFetcher ==
    /\ pc = "ready"
    /\ flavor = "node"
    /\ versions = <<>>
    /\ error = NoError
    /\ failedSources \in SUBSET Sources
    /\ versionData \in
            IF "versionData" \in failedSources THEN {<<>>}
            ELSE SeqsUpTo(NodeVersions, MaxRecords)
    /\ versionScheduleData \in
            IF "versionScheduleData" \in failedSources THEN {<<>>}
            ELSE UNION { [M -> NodeVersionSchedules] : M \in SUBSET Majors }
    /\ packageVersions \in
            IF "packageVersions" \in failedSources THEN {<<>>}
            ELSE SeqsUpTo(GithubPackageVersions, MaxPackages)
    /\ now \in CurrentTimes
    /\ activeLtsVersions = <<>>
    /\ newerEolVersions = <<>>
    /\ eligibleVersions = <<>>
    /\ result = Ok(<<>>)
    /\ cachedVersionData = <<>>
    /\ versionScheduleDataCache = <<>>
    /\ previousResult = Ok(<<>>)
    /\ requestedVersion = Null
    /\ imageVersions = Ok(<<>>)
    /\ NoCalls

\* NodeVersionFetcher.getVersions, with getEligibleVersions inside it, called
\* on a fresh fetcher and once more on the same fetcher.  The awaits run in
\* the order of the source: the schedule, the version data, the registry.
\* What an await resolved to is kept; a value that was never computed,
\* because an earlier await threw, is empty.  Each value of the call is
\* bound once, as a constant of the source is.
CallGetVersions ==
    /\ pc \in {"ready", "done"}
    /\ \E schedule \in {GetVersionScheduleData(versionScheduleDataCache,
                                                failedSources, versionScheduleData)},
          data \in {GetVersionData(cachedVersionData, failedSources, versionData)} :
       \E activeLts \in {GetActiveLtsVersions(data.promise.value,
                                               schedule.promise.value, now)},
          image \in {AwaitNodeImageVersions(
                        FetchData("packageVersions" \in failedSources,
                                  FailedVersionData, packageVersions),
                        schedule.promise.value, now)} :
       \E newerEol \in {GetNewerEolVersions(data.promise.value, activeLts,
                                             image.value)} :
       \E eligible \in {MergeEligibleVersions(GetLatestVersionsByMajor(activeLts),
                                               newerEol)} :
       \E outcome \in {FormatAndValidate(eligible)} :
       LET thrown == IF schedule.promise.error # NoError THEN schedule.promise.error
                     ELSE IF data.promise.error # NoError THEN data.promise.error
                     ELSE image.error
       IN  /\ versionScheduleDataCache' = schedule.cache
           /\ cachedVersionData' =
                 IF schedule.promise.error # NoError THEN cachedVersionData
                 ELSE data.cache
           /\ imageVersions' =
                 IF schedule.promise.error # NoError \/ data.promise.error # NoError
                 THEN imageVersions
                 ELSE image
           /\ IF thrown # NoError
              THEN /\ activeLtsVersions' =
                         IF thrown = image.error THEN activeLts ELSE <<>>
                   /\ newerEolVersions' = <<>>
                   /\ eligibleVersions' = <<>>
                   /\ versions' = <<>>
                   /\ error' = NoError
                   /\ result' = Fail(thrown)
              ELSE /\ activeLtsVersions' = activeLts
                   /\ newerEolVersions' = newerEol
                   /\ eligibleVersions' = eligible
                   /\ versions' = IF FormatThrows(eligible) THEN <<>>
                                  ELSE FormatVersions(eligible)
                   /\ error' = IF FormatThrows(eligible) THEN NoError
                               ELSE outcome.error
                   /\ result' = outcome
    /\ previousResult' = result
    /\ pc' = IF pc = "ready" THEN "done" ELSE "again"
    /\ UNCHANGED <<flavor, versionData, versionScheduleData, packageVersions,
                   now, failedSources, requestedVersion, fetches, callers, retry>>

-----------------------------------------------------------------------------
(* NodeVersionFetcher.getVersion *)

\* The errors of getVersion; the version in the text is requestedVersion.
InvalidVersion == "Invalid version: "
NotLtsVersion == "Version is not a valid Node.js LTS version."
InvalidRegularFor == "Invalid regular version object for version: "

\* What semver.eq throws for the null of semver.clean, and what semver.sort
\* throws for a string that is no version.
NotAString == "TypeError: Invalid version. Must be a string. Got type \"object\"."
NotAVersion == "TypeError: Invalid Version: "

\* NodeVersionFetcher.getVersion, given what getVersionData resolved to
GetVersion(version, allVersions) ==
    LET cleanVersion == Clean(version)
        ltsVersions == GetLtsVersions(allVersions)
        unparseable == {i \in 1..Len(ltsVersions) : Clean(ltsVersions[i].version) = Null}
        matching == {i \in 1..Len(ltsVersions) :
                        /\ Clean(ltsVersions[i].version) # Null
                        /\ SemverEq(Clean(ltsVersions[i].version), cleanVersion)}
        \* ltsVersions.find(...): the index of the first match, 0 for undefined
        found == IF matching = {} THEN 0
                 ELSE CHOOSE i \in matching : \A j \in matching : i <= j
        \* find reaches a record that does not clean before it reaches a match
        findThrows == \E i \in unparseable : found = 0 \/ i < found
        ltsVersion == ltsVersions[found]
        latestLtsVersion ==
            Last(SemverSort([i \in 1..Len(ltsVersions) |->
                                NodeVersionString(ltsVersions[i])]))
        regularVersion ==
            Entry(cleanVersion, Digits(Major(cleanVersion)),
                  ImageName("node", cleanVersion, ltsVersion.lts),
                  ToLowerCase(ltsVersion.lts),
                  Boolean(SemverEq(cleanVersion, latestLtsVersion)))
    IN  IF cleanVersion = Null THEN Fail(Throw(InvalidVersion, NoEntry))
        ELSE IF findThrows THEN Fail(Throw(NotAString, NoEntry))
        ELSE IF found = 0 THEN Fail(Throw(NotLtsVersion, NoEntry))
        ELSE IF unparseable # {} THEN Fail(Throw(NotAVersion, NoEntry))
        ELSE IF ~NodeIsValidRegularVersion(regularVersion)
             THEN Fail(Throw(InvalidRegularFor, NoEntry))
        ELSE Ok(regularVersion)

\* The version argument of bin/fetch-versions.ts: versions with and without
\* records, with and without a leading "v", and a text that is no version.
RequestedVersions ==
    { Plain(18, 17, 1), Plain(18, 17, 3), VPrefixed(20, 10, 0), Plain(20, 11, 0),
      Plain(16, 0, 0), InvalidStr }

\* The sources of a single-version query: all of them resolve, and the
\* registry is not read.
InitVersion ==
    /\ pc = "ready"
    /\ flavor = "node"
    /\ versions = <<>>
    /\ error = NoError
    /\ failedSources = {}
    /\ versionData \in SeqsUpTo(NodeVersions, MaxRecords)
    /\ versionScheduleData \in
            UNION { [M -> NodeVersionSchedules] : M \in SUBSET Majors }
    /\ packageVersions = <<>>
    /\ now \in CurrentTimes
    /\ activeLtsVersions = <<>>
    /\ newerEolVersions = <<>>
    /\ eligibleVersions = <<>>
    /\ result = Ok(<<>>)
    /\ cachedVersionData = <<>>
    /\ versionScheduleDataCache = <<>>
    /\ previousResult = Ok(<<>>)
    /\ requestedVersion = Null
    /\ imageVersions = Ok(<<>>)
    /\ NoCalls

\* versionFetcher.getVersion(version)
CallGetVersion ==
    /\ pc = "ready"
    /\ \E version \in RequestedVersions :
          LET data == GetVersionData(cachedVersionData, failedSources, versionData)
          IN  /\ requestedVersion' = version
              /\ cachedVersionData' = IF Clean(version) = Null THEN cachedVersionData
                                      ELSE data.cache
              /\ result' = IF Clean(version) # Null /\ data.promise.error # NoError
                           THEN Fail(data.promise.error)
                           ELSE GetVersion(version, data.promise.value)
    /\ pc' = "done"
    /\ UNCHANGED <<flavor, versions, error, versionData, versionScheduleData,
                   packageVersions, now, activeLtsVersions, newerEolVersions,
                   eligibleVersions, failedSources, versionScheduleDataCache,
                   previousResult, imageVersions, fetches, callers, retry>>

\* versionFetcher.getVersion(v) on the fetcher whose getVersions returned a
\* list, for the version v of a regular entry of that list.
CallGetVersionOfEntry ==
    /\ pc = "done"
    /\ result.error = NoError
    /\ \E i \in 1..Len(result.value) :
          LET data == GetVersionData(cachedVersionData, failedSources, versionData)
          IN  /\ IsRegularEntry(result.value[i])
              /\ requestedVersion' = result.value[i].version
              /\ cachedVersionData' = data.cache
              /\ result' = IF data.promise.error # NoError
                           THEN Fail(data.promise.error)
                           ELSE GetVersion(result.value[i].version, data.promise.value)
    /\ previousResult' = result
    /\ pc' = "queried"
    /\ UNCHANGED <<flavor, versions, error, versionData, versionScheduleData,
                   packageVersions, now, activeLtsVersions, newerEolVersions,
                   eligibleVersions, failedSources, versionScheduleDataCache,
                   imageVersions, fetches, callers, retry>>

NextVersion == CallGetVersion

SpecVersion == InitVersion /\ [][NextVersion]_vars

\* A fetcher run: getVersions once or twice.
Next == CallGetVersions

Spec == InitFetcher /\ [][Next]_vars

\* A fetcher run with both queries: getVersions, and then getVersion for an
\* entry of its list.
NextQuery == CallGetVersions \/ CallGetVersionOfEntry

SpecQuery == InitFetcher /\ [][NextQuery]_vars

-----------------------------------------------------------------------------
(* NodeVersionFetcher.getVersions step by step: its awaits, and the steps of
   the selection between them, in the order of the source *)

MaxStepRecords == 1    \* most records in the version data
MaxStepPackages == 1   \* most package versions in the registry

InitSteps ==
    /\ pc = "ready"
    /\ flavor = "node"
    /\ versions = <<>>
    /\ error = NoError
    /\ failedSources \in SUBSET Sources
    /\ versionData \in
            IF "versionData" \in failedSources THEN {<<>>}
            ELSE SeqsUpTo(NodeVersions, MaxStepRecords)
    /\ versionScheduleData \in
            IF "versionScheduleData" \in failedSources THEN {<<>>}
            ELSE UNION { [M -> NodeVersionSchedules] : M \in SUBSET Majors }
    /\ packageVersions \in
            IF "packageVersions" \in failedSources THEN {<<>>}
            ELSE SeqsUpTo(GithubPackageVersions, MaxStepPackages)
    /\ now \in CurrentTimes
    /\ activeLtsVersions = <<>>
    /\ newerEolVersions = <<>>
    /\ eligibleVersions = <<>>
    /\ result = Ok(<<>>)
    /\ cachedVersionData = <<>>
    /\ versionScheduleDataCache = <<>>
    /\ previousResult = Ok(<<>>)
    /\ requestedVersion = Null
    /\ imageVersions = Ok(<<>>)
    /\ NoCalls

\* getActiveLtsVersions, lines 184-186: the await of getVersionScheduleData
StepAwaitVersionScheduleData ==
    /\ pc = "ready"
    /\ LET schedule == GetVersionScheduleData(versionScheduleDataCache,
                                              failedSources, versionScheduleData)
       IN  /\ versionScheduleDataCache' = schedule.cache
           /\ IF schedule.promise.error # NoError
              THEN result' = Fail(schedule.promise.error) /\ pc' = "done"
              ELSE result' = result /\ pc' = "versionScheduleData"
    /\ UNCHANGED <<flavor, versions, error, versionData, versionScheduleData,
                   packageVersions, now, activeLtsVersions, newerEolVersions,
                   eligibleVersions, failedSources, cachedVersionData,
                   previousResult, requestedVersion, imageVersions,
                   fetches, callers, retry>>

\* getLtsVersions, line 308: the await of getVersionData
StepAwaitVersionData ==
    /\ pc = "versionScheduleData"
    /\ LET data == GetVersionData(cachedVersionData, failedSources, versionData)
       IN  /\ cachedVersionData' = data.cache
           /\ IF data.promise.error # NoError
              THEN result' = Fail(data.promise.error) /\ pc' = "done"
              ELSE result' = result /\ pc' = "versionData"
    /\ UNCHANGED <<flavor, versions, error, versionData, versionScheduleData,
                   packageVersions, now, activeLtsVersions, newerEolVersions,
                   eligibleVersions, failedSources, versionScheduleDataCache,
                   previousResult, requestedVersion, imageVersions,
                   fetches, callers, retry>>

\* getLtsVersions and getActiveLtsVersions, lines 308 and 189-201: the two
\* filters, on what the two awaits resolved to
StepGetActiveLtsVersions ==
    /\ pc = "versionData"
    /\ activeLtsVersions' =
          GetActiveLtsVersions(cachedVersionData[1],
                               versionScheduleDataCache[1].value, now)
    /\ pc' = "getActiveLtsVersions"
    /\ UNCHANGED <<flavor, versions, error, versionData, versionScheduleData,
                   packageVersions, now, newerEolVersions, eligibleVersions,
                   result, failedSources, cachedVersionData,
                   versionScheduleDataCache, previousResult, requestedVersion,
                   imageVersions, fetches, callers, retry>>

\* getEligibleVersions, line 149: getLatestVersionsByMajor of the active LTS
\* versions; eligibleVersions holds the candidates gathered so far
StepGetLatestVersionsByMajor ==
    /\ pc = "getActiveLtsVersions"
    /\ eligibleVersions' = GetLatestVersionsByMajor(activeLtsVersions)
    /\ pc' = "getLatestVersionsByMajor"
    /\ UNCHANGED <<flavor, versions, error, versionData, versionScheduleData,
                   packageVersions, now, activeLtsVersions, newerEolVersions,
                   result, failedSources, cachedVersionData,
                   versionScheduleDataCache, previousResult, requestedVersion,
                   imageVersions, fetches, callers, retry>>

\* getNewerEolVersions, line 217: the await of
\* NodeImageVersionFetcher.getVersions, which fetches the registry
StepAwaitNodeImageVersions ==
    /\ pc = "getLatestVersionsByMajor"
    /\ LET packages == FetchData("packageVersions" \in failedSources,
                                 FailedVersionData, packageVersions)
           image == AwaitNodeImageVersions(packages,
                                           versionScheduleDataCache[1].value, now)
       IN  /\ imageVersions' = image
           /\ IF image.error # NoError
              THEN result' = Fail(image.error) /\ pc' = "done"
              ELSE result' = result /\ pc' = "packageVersions"
    /\ UNCHANGED <<flavor, versions, error, versionData, versionScheduleData,
                   packageVersions, now, activeLtsVersions, newerEolVersions,
                   eligibleVersions, failedSources, cachedVersionData,
                   versionScheduleDataCache, previousResult, requestedVersion,
                   fetches, callers, retry>>

\* getNewerEolVersions, lines 218-245
StepGetNewerEolVersions ==
    /\ pc = "packageVersions"
    /\ newerEolVersions' =
          GetNewerEolVersions(cachedVersionData[1], activeLtsVersions,
                              imageVersions.value)
    /\ pc' = "getNewerEolVersions"
    /\ UNCHANGED <<flavor, versions, error, versionData, versionScheduleData,
                   packageVersions, now, activeLtsVersions, eligibleVersions,
                   result, failedSources, cachedVersionData,
                   versionScheduleDataCache, previousResult, requestedVersion,
                   imageVersions, fetches, callers, retry>>

\* getEligibleVersions, lines 151-172: the merge and the sort
StepMergeEligibleVersions ==
    /\ pc = "getNewerEolVersions"
    /\ eligibleVersions' = MergeEligibleVersions(eligibleVersions, newerEolVersions)
    /\ pc' = "getEligibleVersions"
    /\ UNCHANGED <<flavor, versions, error, versionData, versionScheduleData,
                   packageVersions, now, activeLtsVersions, newerEolVersions,
                   result, failedSources, cachedVersionData,
                   versionScheduleDataCache, previousResult, requestedVersion,
                   imageVersions, fetches, callers, retry>>

\* getVersions, lines 115-137
StepFormatAndValidate ==
    /\ pc = "getEligibleVersions"
    /\ result' = FormatAndValidate(eligibleVersions)
    /\ pc' = "done"
    /\ UNCHANGED <<flavor, versions, error, versionData, versionScheduleData,
                   packageVersions, now, activeLtsVersions, newerEolVersions,
                   eligibleVersions, failedSources, cachedVersionData,
                   versionScheduleDataCache, previousResult, requestedVersion,
                   imageVersions, fetches, callers, retry>>

NextSteps ==
    \/ StepAwaitVersionScheduleData
    \/ StepAwaitVersionData
    \/ StepGetActiveLtsVersions
    \/ StepGetLatestVersionsByMajor
    \/ StepAwaitNodeImageVersions
    \/ StepGetNewerEolVersions
    \/ StepMergeEligibleVersions
    \/ StepFormatAndValidate

SpecSteps == InitSteps /\ [][NextSteps]_vars

-----------------------------------------------------------------------------
(* Calls in progress together: getVersionScheduleData of
   VersionScheduleDataFetcher and getVersionData of AbstractVersionFetcher.
   A promise of fetchWithRetry is its position in fetches; it is pending
   while its outcome is <<>>.  A caller is one call of the method: it is
   idle before the call, awaiting while it awaits the promise, and settled
   with the outcome the await delivered. *)

MaxCallers == 3    \* most calls of one run

Callers == 1..MaxCallers

\* The URLs of the schedule fetchers, and the URL of the version data.
Urls == {"schedule.json", "other.json"}
VersionDataUrl == "index.json"

\* What a run of fetchWithRetry can settle with: one of two bodies, or the
\* error of the last attempt.
OutcomesOf(url) ==
    IF url = VersionDataUrl
    THEN { Ok(<<>>), Ok(<<NodeVersion(VPrefixed(18, 17, 0), "Hydrogen")>>),
           Fail(Throw(FailedVersionData, NoEntry)) }
    ELSE { Ok(<<>>), Ok([major \in {18} |-> NodeVersionSchedule(<<0>>, <<2>>)]),
           Fail(Throw(FailedVersionScheduleData, NoEntry)) }

PendingFetch(url) == [url |-> url, outcome |-> <<>>]

IdleCaller ==
    [pc |-> "idle", url |-> "", promise |-> 0, joined |-> "", outcome |-> <<>>]

\* How a call found the promise it awaits: it started the fetch, or the
\* fetch was pending, or it was settled.
Joined(started, promise) ==
    IF promise > Len(started) THEN "started"
    ELSE IF started[promise].outcome = <<>> THEN "pending"
    ELSE "settled"

InitCalls ==
    /\ pc = "ready"
    /\ flavor = "node"
    /\ versions = <<>>
    /\ error = NoError
    /\ NoSelection
    /\ cachedVersionData = <<>>
    /\ versionScheduleDataCache = <<>>
    /\ fetches = <<>>
    /\ callers = [c \in Callers |-> IdleCaller]
    /\ retry = <<>>

\* Mutant of GetVersionScheduleDataPromise: the cache is not consulted.
GetVersionScheduleDataPromiseUncached(cache, url, started) ==
    [cache |-> MapSet(cache, url, Len(started) + 1),
     fetches |-> Append(started, PendingFetch(url)),
     promise |-> Len(started) + 1]

\* VersionScheduleDataFetcher.getVersionScheduleData, lines 38-47, with the
\* static cache a Map from URL to promise: the promise of fetchWithRetry is
\* stored before the method returns.
GetVersionScheduleDataPromise(cache, url, started) ==
    IF ~MapHas(cache, url)
    THEN [cache |-> MapSet(cache, url, Len(started) + 1),
          fetches |-> Append(started, PendingFetch(url)),
          promise |-> Len(started) + 1]
    ELSE [cache |-> cache, fetches |-> started, promise |-> MapGet(cache, url)]

\* await new VersionScheduleDataFetcher(url).getVersionScheduleData(): the
\* call, up to the await of the promise it returns
CallGetVersionScheduleData ==
    /\ \E c \in Callers, url \in Urls :
          LET call == GetVersionScheduleDataPromise(versionScheduleDataCache,
                                                   url, fetches)
          IN  /\ callers[c].pc = "idle"
              /\ versionScheduleDataCache' = call.cache
              /\ fetches' = call.fetches
              /\ callers' = [callers EXCEPT ![c] =
                    [pc |-> "awaiting", url |-> url, promise |-> call.promise,
                     joined |-> Joined(fetches, call.promise), outcome |-> <<>>]]
    /\ UNCHANGED <<pc, flavor, versions, error, versionData, versionScheduleData,
                   packageVersions, now, activeLtsVersions, newerEolVersions,
                   eligibleVersions, result, failedSources, cachedVersionData,
                   previousResult, requestedVersion, imageVersions, retry>>

\* The promise of a run of fetchWithRetry fulfils or rejects.
SettleFetchWithRetry ==
    /\ \E i \in 1..Len(fetches) :
          /\ fetches[i].outcome = <<>>
          /\ \E outcome \in OutcomesOf(fetches[i].url) :
                fetches' = [fetches EXCEPT ![i].outcome = <<outcome>>]
    /\ UNCHANGED <<pc, flavor, versions, error, versionData, versionScheduleData,
                   packageVersions, now, activeLtsVersions, newerEolVersions,
                   eligibleVersions, result, failedSources, cachedVersionData,
                   versionScheduleDataCache, previousResult, requestedVersion,
                   imageVersions, callers, retry>>

\* The await of a caller of getVersionScheduleData delivers the outcome of
\* the promise.
ResumeGetVersionScheduleData ==
    /\ \E c \in Callers :
          /\ callers[c].pc = "awaiting"
          /\ fetches[callers[c].promise].outcome # <<>>
          /\ callers' = [callers EXCEPT ![c].pc = "settled",
                                        ![c].outcome = fetches[callers[c].promise].outcome]
    /\ UNCHANGED <<pc, flavor, versions, error, versionData, versionScheduleData,
                   packageVersions, now, activeLtsVersions, newerEolVersions,
                   eligibleVersions, result, failedSources, cachedVersionData,
                   versionScheduleDataCache, previousResult, requestedVersion,
                   imageVersions, fetches, retry>>

NextSchedule ==
    \/ CallGetVersionScheduleData
    \/ SettleFetchWithRetry
    \/ ResumeGetVersionScheduleData

SpecSchedule == InitCalls /\ [][NextSchedule]_vars

\* AbstractVersionFetcher.getVersionData up to its await, lines 160-162: the
\* cache is null and fetchWithRetry is started, or the method returns the
\* cached data.
CallGetVersionData ==
    /\ \E c \in Callers :
          /\ callers[c].pc = "idle"
          /\ IF cachedVersionData = <<>>
             THEN /\ fetches' = Append(fetches, PendingFetch(VersionDataUrl))
                  /\ callers' = [callers EXCEPT ![c] =
                        [pc |-> "awaiting", url |-> VersionDataUrl,
                         promise |-> Len(fetches) + 1, joined |-> "started",
                         outcome |-> <<>>]]
             ELSE /\ fetches' = fetches
                  /\ callers' = [callers EXCEPT ![c] =
                        [pc |-> "settled", url |-> VersionDataUrl,
                         promise |-> 0, joined |-> "settled",
                         outcome |-> <<Ok(cachedVersionData[1])>>]]
    /\ UNCHANGED <<pc, flavor, versions, error, versionData, versionScheduleData,
                   packageVersions, now, activeLtsVersions, newerEolVersions,
                   eligibleVersions, result, failedSources, cachedVersionData,
                   versionScheduleDataCache, previousResult, requestedVersion,
                   imageVersions, retry>>

\* AbstractVersionFetcher.getVersionData after its await, lines 162-165: the
\* value is assigned to the cache and the cache is returned, or the
\* rejection propagates and the cache stays as it is.
ResumeGetVersionData ==
    /\ \E c \in Callers :
          LET settled == fetches[callers[c].promise].outcome
          IN  /\ callers[c].pc = "awaiting"
              /\ settled # <<>>
              /\ cachedVersionData' = IF settled[1].error = NoError
                                      THEN <<settled[1].value>>
                                      ELSE cachedVersionData
              /\ callers' = [callers EXCEPT ![c].pc = "settled",
                                            ![c].outcome = settled]
    /\ UNCHANGED <<pc, flavor, versions, error, versionData, versionScheduleData,
                   packageVersions, now, activeLtsVersions, newerEolVersions,
                   eligibleVersions, result, failedSources,
                   versionScheduleDataCache, previousResult, requestedVersion,
                   imageVersions, fetches, retry>>

NextData ==
    \/ CallGetVersionData
    \/ SettleFetchWithRetry
    \/ ResumeGetVersionData

SpecData == InitCalls /\ [][NextData]_vars

-----------------------------------------------------------------------------
(* fetchWithRetry: one run, with the calls of fetchFn and the timers.  pc is
   "loop" at the test of the for loop, "fetchFn" while the call of fetchFn
   is awaited, "setTimeout" while the timer is awaited, and "returned" or
   "thrown" when the run is over.  retry.calls holds the outcome of every
   call of fetchFn, <<>> while the call is pending; retry.waits holds the
   duration of every timer. *)

MaxAttempts == 3   \* largest value of the attempts argument

\* The delay argument: none, the default, and one that reaches the ceiling.
Delays == {0, 1000, 16000}
MaxDelay == 30000

\* What a call of fetchFn resolves to or rejects with.
FetchValues == { <<>>, <<NodeVersion(VPrefixed(18, 17, 0), "Hydrogen")>> }
FetchErrors ==
    { Throw(FailedVersionData, NoEntry), Throw("TypeError: fetch failed", NoEntry) }

\* Math.min(delay * Math.pow(2, attempt - 1), 30000)
RetryDelay(delay, attempt) ==
    IF delay * 2^(attempt - 1) < MaxDelay THEN delay * 2^(attempt - 1) ELSE MaxDelay

\* Mutant of IsFinalAttempt: no attempt counts as the final one.
IsFinalAttemptNever(attempt, attempts) == FALSE

\* attempt === attempts
IsFinalAttempt(attempt, attempts) == attempt = attempts

InitRetry ==
    /\ pc = "loop"
    /\ flavor = "node"
    /\ versions = <<>>
    /\ error = NoError
    /\ NoSelection
    /\ cachedVersionData = <<>>
    /\ versionScheduleDataCache = <<>>
    /\ fetches = <<>>
    /\ callers = <<>>
    /\ \E attempts \in 1..MaxAttempts, delay \in Delays :
          retry = [attempts |-> attempts, delay |-> delay, attempt |-> 1,
                   lastError |-> NoError, calls |-> <<>>, waits |-> <<>>]

\* The loop test holds and fetchFn is called, line 32.
RetryCallFetchFn ==
    /\ pc = "loop"
    /\ retry.attempt <= retry.attempts
    /\ retry' = [retry EXCEPT !.calls = Append(retry.calls, <<>>)]
    /\ pc' = "fetchFn"
    /\ UNCHANGED <<flavor, versions, error, versionData, versionScheduleData,
                   packageVersions, now, activeLtsVersions, newerEolVersions,
                   eligibleVersions, result, failedSources, cachedVersionData,
                   versionScheduleDataCache, previousResult, requestedVersion,
                   imageVersions, fetches, callers>>

\* The promise of fetchFn fulfils and its value is returned, line 32.
RetryFetchFnResolves ==
    /\ pc = "fetchFn"
    /\ \E value \in FetchValues :
          /\ retry' = [retry EXCEPT !.calls[Len(retry.calls)] = <<Ok(value)>>]
          /\ result' = Ok(value)
    /\ pc' = "returned"
    /\ UNCHANGED <<flavor, versions, error, versionData, versionScheduleData,
                   packageVersions, now, activeLtsVersions, newerEolVersions,
                   eligibleVersions, failedSources, cachedVersionData,
                   versionScheduleDataCache, previousResult, requestedVersion,
                   imageVersions, fetches, callers>>

\* The promise of fetchFn rejects, lines 33-44: the error is kept; after
\* the final attempt the loop continues at once, otherwise the timer is set.
RetryFetchFnRejects ==
    /\ pc = "fetchFn"
    /\ \E thrown \in FetchErrors :
          IF IsFinalAttempt(retry.attempt, retry.attempts)
          THEN /\ retry' = [retry EXCEPT !.calls[Len(retry.calls)] = <<Fail(thrown)>>,
                                         !.lastError = thrown,
                                         !.attempt = retry.attempt + 1]
               /\ pc' = "loop"
          ELSE /\ retry' = [retry EXCEPT !.calls[Len(retry.calls)] = <<Fail(thrown)>>,
                                         !.lastError = thrown,
                                         !.waits = Append(retry.waits,
                                                          RetryDelay(retry.delay, retry.attempt))]
               /\ pc' = "setTimeout"
    /\ UNCHANGED <<flavor, versions, error, versionData, versionScheduleData,
                   packageVersions, now, activeLtsVersions, newerEolVersions,
                   eligibleVersions, result, failedSources, cachedVersionData,
                   versionScheduleDataCache, previousResult, requestedVersion,
                   imageVersions, fetches, callers>>

\* The timer fires and the loop goes to its next attempt, lines 41-45 and 30.
RetryTimerFires ==
    /\ pc = "setTimeout"
    /\ retry' = [retry EXCEPT !.attempt = retry.attempt + 1]
    /\ pc' = "loop"
    /\ UNCHANGED <<flavor, versions, error, versionData, versionScheduleData,
                   packageVersions, now, activeLtsVersions, newerEolVersions,
                   eligibleVersions, result, failedSources, cachedVersionData,
                   versionScheduleDataCache, previousResult, requestedVersion,
                   imageVersions, fetches, callers>>

\* The loop test fails and the last error is thrown, line 48.
RetryThrowLastError ==
    /\ pc = "loop"
    /\ retry.attempt > retry.attempts
    /\ result' = Fail(retry.lastError)
    /\ pc' = "thrown"
    /\ UNCHANGED <<flavor, versions, error, versionData, versionScheduleData,
                   packageVersions, now, activeLtsVersions, newerEolVersions,
                   eligibleVersions, failedSources, cachedVersionData,
                   versionScheduleDataCache, previousResult, requestedVersion,
                   imageVersions, fetches, callers, retry>>

NextRetry ==
    \/ RetryCallFetchFn
    \/ RetryFetchFnResolves
    \/ RetryFetchFnRejects
    \/ RetryTimerFires
    \/ RetryThrowLastError

SpecRetry == InitRetry /\ [][NextRetry]_vars

\* The run goes on: the event loop runs the continuation that is ready, a
\* timer that was set fires, and a call of fetchFn settles.
SpecRetryFair == SpecRetry /\ WF_vars(NextRetry)

-----------------------------------------------------------------------------
(* Properties of NodeVersionFetcher *)

\* getVersions returned a list.
Returned == pc = "done" /\ result.error = NoError

\* getEligibleVersions returned: the registry list passed its validation, so
\* no await threw.
EligibleResolved ==
    /\ pc = "done"
    /\ failedSources = {}
    /\ GetAllVersions(packageVersions).error = NoError

\* A record of the version data parses, and then has a major line.
Parses(record) == record.version.form \in {"plain", "v"}
RecordsOfMajor(major) ==
    {i \in 1..Len(versionData) :
        Parses(versionData[i]) /\ versionData[i].version.major = major}
LtsRecordsOfMajor(major) ==
    {i \in RecordsOfMajor(major) : versionData[i].lts # LtsFalse}

\* Positions in the eligible list that hold a record of the major.
EligibleOfMajor(major) ==
    {i \in 1..Len(eligibleVersions) : eligibleVersions[i].version.major = major}

\* The line is active LTS now by the schedule: ltsStart <= now < end.
ActiveBySchedule(major) ==
    /\ major \in DOMAIN versionScheduleData
    /\ versionScheduleData[major].lts # <<>>
    /\ versionScheduleData[major].end # <<>>
    /\ versionScheduleData[major].lts[1] <= now
    /\ now < versionScheduleData[major].end[1]

\* Package versions that are published images of the major.
TagsOfMajor(major) ==
    {i \in 1..Len(packageVersions) :
        /\ packageVersions[i].description.form = "node"
        /\ packageVersions[i].description.major = major}

\* The triple (major, minor, patch) of a is above that of b.
Above(a, b) ==
    \/ a.major > b.major
    \/ a.major = b.major /\ a.minor > b.minor
    \/ a.major = b.major /\ a.minor = b.minor /\ a.patch > b.patch

\* C4: no two regular entries of a list that getVersions returns have the
\* same image-version.
C4_UniqueImageVersions ==
    Returned =>
        \A i, j \in 1..Len(result.value) :
            (i # j /\ result.value[i].version # LatestStr
                   /\ result.value[j].version # LatestStr)
                => result.value[i].imageVersion # result.value[j].imageVersion

\* C4 witness: a returned list with regular entries of two majors.
C4_Witness ==
    /\ Returned /\ Len(result.value) = 3
    /\ result.value[1].imageVersion = Digits(18)
    /\ result.value[2].imageVersion = Digits(20)

\* C5: for a major with a published tag P that is not active LTS by the
\* schedule, the eligible list holds the highest record of that major from
\* the version data if and only if its version is strictly greater than P.
C5_MonotonicEolInclusion ==
    EligibleResolved =>
        \A major \in Majors :
            (TagsOfMajor(major) # {} /\ ~ActiveBySchedule(major)) =>
                \A r \in RecordsOfMajor(major), t \in TagsOfMajor(major) :
                    ( /\ \A q \in RecordsOfMajor(major) :
                            ~Above(versionData[q].version, versionData[r].version)
                      /\ \A u \in TagsOfMajor(major) :
                            ~Above(packageVersions[u].description,
                                   packageVersions[t].description) )
                    => ( (\E i \in EligibleOfMajor(major) :
                            ~Above(versionData[r].version, eligibleVersions[i].version))
                         <=> Above(versionData[r].version,
                                   packageVersions[t].description) )

\* C6: a major that is active by the schedule and has an LTS record gives
\* exactly one eligible record, an LTS record of that major that no LTS
\* record of the major exceeds; a major that is not active gives no active
\* LTS record.
C6_OneHighestLtsPerActiveMajor ==
    EligibleResolved =>
        /\ \A major \in Majors :
              (ActiveBySchedule(major) /\ LtsRecordsOfMajor(major) # {}) =>
                  /\ Cardinality(EligibleOfMajor(major)) = 1
                  /\ \A i \in EligibleOfMajor(major) :
                        /\ \E r \in LtsRecordsOfMajor(major) :
                              versionData[r] = eligibleVersions[i]
                        /\ \A r \in LtsRecordsOfMajor(major) :
                              ~Above(versionData[r].version, eligibleVersions[i].version)
        /\ \A i \in 1..Len(activeLtsVersions) :
              ActiveBySchedule(activeLtsVersions[i].version.major)

\* C6 witness: two LTS records of one active major, the lower one first; the
\* eligible list is the higher one alone.
C6_Witness ==
    /\ EligibleResolved
    /\ Len(versionData) = 2
    /\ \E major \in Majors :
          /\ ActiveBySchedule(major)
          /\ LtsRecordsOfMajor(major) = {1, 2}
          /\ Above(versionData[2].version, versionData[1].version)
    /\ eligibleVersions = <<versionData[2]>>

\* The record is an LTS record whose major has both schedule dates and
\* ltsStart <= now < end.
IsActiveLtsRecord(record) ==
    /\ record.lts # LtsFalse
    /\ Parses(record)
    /\ ActiveBySchedule(record.version.major)

\* C7: getActiveLtsVersions keeps exactly the LTS records whose major has
\* both dates in the schedule and ltsStart <= now < end.
C7_ActiveIffInWindow ==
    pc = "done" => activeLtsVersions = SelectSeq(versionData, IsActiveLtsRecord)

\* C7 witness: one line whose LTS window opens now and is kept, one line
\* whose window ends now and is dropped.
C7_Witness ==
    /\ pc = "done"
    /\ Len(versionData) = 2 /\ Len(activeLtsVersions) = 1
    /\ \E a, b \in DOMAIN versionScheduleData :
          /\ versionScheduleData[a].lts = <<now>>
          /\ versionScheduleData[b].end = <<now>>
          /\ activeLtsVersions[1].version.major = a
          /\ \E i \in LtsRecordsOfMajor(b) : TRUE

\* getVersions built the array it hands to validateVersions.
Formatted == pc = "done" /\ versions # <<>>

\* C15: among the regular entries getVersions builds from a non-empty
\* eligible list, is-latest is true for exactly one entry, the one that holds
\* the maximum version of the eligible list, and false for every other.
C15_ExactlyOneIsLatest ==
    (Formatted /\ eligibleVersions # <<>>) =>
        \E i \in RegularAt :
            /\ versions[i].isLatest = "true"
            /\ \A j \in 1..Len(eligibleVersions) :
                    ~Above(eligibleVersions[j].version, versions[i].version)
            /\ \A j \in RegularAt \ {i} : versions[j].isLatest = "false"

\* C15 witness: two regular entries were built, the lower one not flagged
\* and the higher one flagged.
C15_Witness ==
    /\ Formatted /\ Len(versions) = 3
    /\ Above(versions[2].version, versions[1].version)
    /\ versions[1].isLatest = "false"
    /\ versions[2].isLatest = "true"

\* The lower-case form of a codename, stated as a table.
LowerCaseOf(codename) ==
    IF codename = "Hydrogen" THEN "hydrogen"
    ELSE IF codename = "Iron" THEN "iron"
    ELSE "?"

C17_EmptyEligibleIsRejected ==
    /\ (EligibleResolved /\ eligibleVersions = <<>>) =>
          /\ versions = <<LatestVersionObject>>
          /\ result = Fail(Throw(TooShort, NoEntry))
    /\ Returned =>
          \E i \in 1..Len(result.value) : result.value[i].version # LatestStr

\* C17 witness: records and published images exist, no line is active and
\* no record is newer than its image; the array is the latest version
\* object alone and the call failed.
C17_Witness ==
    /\ EligibleResolved /\ eligibleVersions = <<>>
    /\ versionData # <<>>
    /\ versions = <<LatestVersionObject>>
    /\ result.error.message = TooShort

\* C18: a second call of getVersions on the same records, schedule, registry
\* and time has the outcome of the first: the same list or the same error.
C18_SecondCallSameOutcome ==
    pc = "again" => result = previousResult

\* C18 witness: both calls returned a list of two regular entries, the
\* second one served from the cache of the version data.
C18_Witness ==
    /\ pc = "again"
    /\ cachedVersionData = <<versionData>>
    /\ result.error = NoError /\ Len(result.value) = 3
    /\ previousResult = result

\* The error a source fails with.
SourceError(source) ==
    IF source = "versionScheduleData" THEN Throw(FailedVersionScheduleData, NoEntry)
    ELSE Throw(FailedVersionData, NoEntry)

\* C19: when a source fails, getVersions fails with the error of a failed
\* source and returns no list.
C19_FailedSourceFailsTheCall ==
    (pc = "done" /\ failedSources # {}) =>
        /\ result.value = <<>>
        /\ \E source \in failedSources : result.error = SourceError(source)

\* C19 witness: the records and the schedule resolved and give an active
\* LTS version, the registry failed, and the call failed with its error.
C19_Witness ==
    /\ pc = "done" /\ failedSources = {"packageVersions"}
    /\ activeLtsVersions # <<>>
    /\ result = Fail(Throw(FailedVersionData, NoEntry))

\* The array with the elements at i and i + 1 exchanged.
Exchanged(seq, i) ==
    [j \in 1..Len(seq) |->
        IF j = i THEN seq[i + 1] ELSE IF j = i + 1 THEN seq[i] ELSE seq[j]]

\* The eligible list of the given records under the schedule, registry and
\* time of the run.
EligibleOf(records) ==
    LET activeLts == GetActiveLtsVersions(records, versionScheduleData, now)
        image == NodeImageGetVersions(packageVersions, versionScheduleData, now)
        newerEol == GetNewerEolVersions(records, activeLts, image.value)
    IN  MergeEligibleVersions(GetLatestVersionsByMajor(activeLts), newerEol)

Without(seq, i) ==
    [j \in 1..(Len(seq) - 1) |-> IF j < i THEN seq[j] ELSE seq[j + 1]]

\* C21: a record whose version does not parse is dropped by every step of
\* the selection: it is in none of the lists that getActiveLtsVersions,
\* getNewerEolVersions and getEligibleVersions resolve to, getEligibleVersions
\* resolves, and the eligible list is the one of the records without it.
C21_UnparseableRecordSkipped ==
    EligibleResolved =>
        /\ \A i \in 1..Len(activeLtsVersions) : Parses(activeLtsVersions[i])
        /\ \A i \in 1..Len(newerEolVersions) : Parses(newerEolVersions[i])
        /\ \A i \in 1..Len(eligibleVersions) : Parses(eligibleVersions[i])
        /\ \A i \in 1..Len(versionData) :
              ~Parses(versionData[i]) =>
                  EligibleOf(Without(versionData, i)) = eligibleVersions

\* C21 witness: the records hold one that does not parse next to an active
\* LTS release, and the eligible list is that release alone.
C21_Witness ==
    /\ EligibleResolved
    /\ \E i \in 1..Len(versionData) : ~Parses(versionData[i])
    /\ Len(eligibleVersions) = 1
    /\ \E i \in 1..Len(versionData) : versionData[i] = eligibleVersions[1]

\* C26: the list NodeImageVersionFetcher.getVersions returns, the validated
\* list filtered to the majors that are active LTS, holds a regular entry
\* before the latest entry, and its last regular entry has is-latest true.
C26_FilteredImageListValid ==
    (pc = "done" /\ failedSources = {} /\ imageVersions.error = NoError) =>
        /\ RegularVersions(imageVersions.value) # <<>>
        /\ Last(RegularVersions(imageVersions.value)).isLatest = "true"

\* C27: every record getEligibleVersions returns, from the active-LTS path
\* and from the newer-EOL path, has a string as its LTS codename, and
\* getVersions does not fail where it lower-cases the codename.
C27_EligibleHasCodename ==
    EligibleResolved =>
        /\ \A i \in 1..Len(eligibleVersions) : eligibleVersions[i].lts # LtsFalse
        /\ result.error # Throw(NotAFunction, NoEntry)

\* Some major with an LTS record is active LTS now.
SomeLtsLineIsActive ==
    \E major \in Majors : ActiveBySchedule(major) /\ LtsRecordsOfMajor(major) # {}

\* C28: when the sources resolve and a major with an LTS record is active,
\* getVersions returns a list with an entry for every such major, whatever
\* the registry holds.
C28_SucceedsWithAnyRegistry ==
    (pc = "done" /\ failedSources = {} /\ SomeLtsLineIsActive) =>
        /\ result.error = NoError
        /\ \A major \in Majors :
              (ActiveBySchedule(major) /\ LtsRecordsOfMajor(major) # {}) =>
                  \E i \in 1..Len(result.value) :
                      /\ IsRegularEntry(result.value[i])
                      /\ result.value[i].version.major = major

-----------------------------------------------------------------------------
(* Properties of NodeVersionFetcher.getVersion *)

\* Positions of the records that are active LTS now, and whether the
\* requested version cleans to the version of one of them.
ActiveLtsRecords ==
    {i \in 1..Len(versionData) : IsActiveLtsRecord(versionData[i])}
RequestedIsActiveLts ==
    \E i \in ActiveLtsRecords : Clean(versionData[i].version) = Clean(requestedVersion)
AllRecordsParse == \A i \in 1..Len(versionData) : Parses(versionData[i])

\* C13: for a requested version that cleans to a version of the current LTS
\* set, getVersion returns the entry of that version (image-version its
\* major, image-name with the codename, image-code-name in lower case) with
\* is-latest true if and only if no version of the current LTS set is higher.
C13_GetVersionEntry ==
    (pc = "done" /\ AllRecordsParse /\ RequestedIsActiveLts) =>
        \E i \in ActiveLtsRecords :
            /\ Clean(versionData[i].version) = Clean(requestedVersion)
            /\ result =
                  Ok(Entry(Clean(requestedVersion),
                           Digits(Clean(requestedVersion).major),
                           ImageName("node", Clean(requestedVersion), versionData[i].lts),
                           LowerCaseOf(versionData[i].lts),
                           IF \A j \in ActiveLtsRecords :
                                  ~Above(versionData[j].version, versionData[i].version)
                           THEN "true" ELSE "false"))

\* C14: getVersion fails with the "not a valid Node.js LTS version" error
\* for every requested version that is not an active LTS version now, and
\* returns an entry only for one that is.
C14_OnlyActiveLtsReturned ==
    (pc = "done" /\ AllRecordsParse /\ Clean(requestedVersion) # Null) =>
        /\ ~RequestedIsActiveLts => result = Fail(Throw(NotLtsVersion, NoEntry))
        /\ result.error = NoError => RequestedIsActiveLts

\* The requested version cleans to the version of an LTS record.
RequestedIsLts ==
    \E i \in 1..Len(versionData) :
        /\ Parses(versionData[i]) /\ versionData[i].lts # LtsFalse
        /\ Clean(versionData[i].version) = Clean(requestedVersion)

\* C30: for a requested version of an LTS record, a record whose version
\* does not parse does not make getVersion fail, and the entry returned is
\* the one returned for the records without it.
C30_GetVersionSkipsUnparseable ==
    (pc = "done" /\ RequestedIsLts) =>
        \A i \in 1..Len(versionData) :
            ~Parses(versionData[i]) =>
                /\ result.error = NoError
                /\ result = GetVersion(requestedVersion, Without(versionData, i))

\* C29: getVersion, called for the version of a regular entry of the list
\* that getVersions returned on the same sources at the same time, returns
\* that entry, is-latest included.
C29_GetVersionAgreesWithList ==
    pc = "queried" =>
        \E i \in 1..Len(previousResult.value) :
            /\ previousResult.value[i].version = requestedVersion
            /\ result = Ok(previousResult.value[i])

-----------------------------------------------------------------------------
(* Properties of the steps of getVersions *)

\* The sources that have resolved: the schedule and the version data are in
\* their caches, and NodeImageVersionFetcher.getVersions has an outcome.
ResolvedSources ==
    {source \in Sources :
        \/ source = "versionScheduleData" /\ versionScheduleDataCache # <<>>
        \/ source = "versionData" /\ cachedVersionData # <<>>
        \/ source = "packageVersions" /\ imageVersions # Ok(<<>>)}

\* The positions right after a step of the selection.
SelectionSteps ==
    {"getActiveLtsVersions", "getLatestVersionsByMajor", "getNewerEolVersions",
     "getEligibleVersions"}

\* C22: when a step of the selection (the LTS filtering, the reduction per
\* major, the merge) has run, all three sources have resolved.
C22_SelectionAfterAllSources ==
    pc \in SelectionSteps => ResolvedSources = Sources

-----------------------------------------------------------------------------
(* Properties of the calls in progress together *)

FetchesOf(url) == {i \in 1..Len(fetches) : fetches[i].url = url}
Called == {c \in Callers : callers[c].pc # "idle"}
Settled == {c \in Callers : callers[c].pc = "settled"}

\* C23: whatever the calls of getVersionScheduleData and their order, also
\* with calls made while the fetch is pending, fetchWithRetry is started at
\* most once for a URL, the callers of a URL await one promise and receive
\* its outcome, value or failure, and the callers of different URLs await
\* different promises.
C23_ScheduleFetchedOncePerUrl ==
    /\ \A url \in Urls : Cardinality(FetchesOf(url)) <= 1
    /\ \A c \in Called :
          /\ callers[c].promise \in FetchesOf(callers[c].url)
          /\ c \in Settled =>
                callers[c].outcome = fetches[callers[c].promise].outcome
    /\ \A c1, c2 \in Called :
          /\ callers[c1].url = callers[c2].url =>
                callers[c1].promise = callers[c2].promise
          /\ callers[c1].url # callers[c2].url =>
                callers[c1].promise # callers[c2].promise
    /\ \A c1, c2 \in Settled :
          callers[c1].url = callers[c2].url =>
              callers[c1].outcome = callers[c2].outcome

\* C23 witness: a caller started the fetch of a URL, another called while
\* it was pending, both received the same failure, and a third caller
\* awaits the promise of the other URL.
C23_Witness ==
    \E c1, c2, c3 \in Callers :
        /\ callers[c1].joined = "started" /\ callers[c2].joined = "pending"
        /\ callers[c1].url = callers[c2].url
        /\ c1 \in Settled /\ c2 \in Settled
        /\ callers[c1].outcome = <<Fail(Throw(FailedVersionScheduleData, NoEntry))>>
        /\ callers[c2].outcome = callers[c1].outcome
        /\ c3 \in Called /\ callers[c3].url # callers[c1].url
        /\ Len(fetches) = 2

\* C24: whatever the calls of getVersionData on one fetcher and their
\* order, also with calls made while a fetch is pending, fetchWithRetry is
\* started at most once and the calls that return, return the same data.
C24_VersionDataFetchedOnce ==
    /\ Len(fetches) <= 1
    /\ \A c1, c2 \in Settled :
          (callers[c1].outcome[1].error = NoError
              /\ callers[c2].outcome[1].error = NoError) =>
                  callers[c1].outcome = callers[c2].outcome

-----------------------------------------------------------------------------
(* Properties of fetchWithRetry *)

RetryOver == pc \in {"returned", "thrown"}
PendingCalls == {i \in 1..Len(retry.calls) : retry.calls[i] = <<>>}
FailedCalls ==
    {i \in 1..Len(retry.calls) :
        retry.calls[i] # <<>> /\ retry.calls[i][1].error # NoError}

\* What holds at every moment of a run: fetchFn is called at most attempts
\* times and one call at a time, every call before the last one failed, the
\* value returned is the value of the call that succeeded, the error thrown
\* is the error of the last of attempts failed calls, and a timer was set
\* after every failed call but the final one.
RetrySafe ==
    /\ Len(retry.calls) <= retry.attempts
    /\ PendingCalls \subseteq {Len(retry.calls)}
    /\ PendingCalls # {} <=> pc = "fetchFn"
    /\ \A i \in 1..(Len(retry.calls) - 1) : i \in FailedCalls
    /\ pc = "returned" =>
          /\ retry.calls # <<>>
          /\ Last(retry.calls) = <<result>>
          /\ result.error = NoError
    /\ pc = "thrown" =>
          /\ Len(retry.calls) = retry.attempts
          /\ FailedCalls = 1..retry.attempts
          /\ Last(retry.calls) = <<result>>
    /\ Len(retry.waits) < retry.attempts
    /\ Len(retry.waits) = Cardinality(FailedCalls \ {retry.attempts})
    /\ pc = "setTimeout" => Len(retry.calls) < retry.attempts

====
